---------------------------- MODULE Spec2Model ----------------------------
(***************************************************************************)
(* py2ts: conversion of Python type descriptors to a tree of TypeScript    *)
(* type nodes (generate.py) and the rendering of that tree (data.py).      *)
(*                                                                         *)
(* The state is what the process keeps between statements: the global      *)
(* CONFIG object, the global set `interfaces`, and the call stack of the   *)
(* recursive descent of _generate_ts.  One step of the descent is one      *)
(* action, so that the iteration order of the set of base classes is a     *)
(* choice of the step and not of the model.                                *)
(***************************************************************************)
EXTENDS Integers, Sequences, FiniteSets, TLC

VARIABLES
    types,       \* the classes the calling module defines (fixed per run)
    CONFIG,      \* config.py: the process-wide Config instance
    interfaces,  \* generate.py: the process-wide set of classes seen
    stack,       \* activation records of _generate_ts / _classlike_to_ts
    pc,          \* "idle", "running", "done", "error", "rendered"
    py_type,     \* the argument of the current top-level generate_ts call
    result,      \* <<node>> returned by generate_ts, <<>> when none
    error,       \* the exception that ended the call, "None" when none
    config,      \* the config argument of that call
    text,        \* str(result) and result.full_str() after rendering
    writes,      \* number of direct assignments to CONFIG by the caller
    excluded,    \* <<>>, or the receiver and argument of ts.exclude(names)
    threads      \* the calls of the threads of a threaded caller, <<>> when none

vars == <<types, CONFIG, interfaces, stack, pc, py_type, config, result, error, text, writes,
          excluded, threads>>

(***************************************************************************)
(* Bounds of the model.                                                    *)
(***************************************************************************)
\* Python's recursion limit, scaled down: deeper descents end in RecursionError.
RecursionLimit == 6
\* How many times the caller assigns an attribute of CONFIG directly.
MaxConfigWrites == 1

(***************************************************************************)
(* Python type descriptors.                                                *)
(***************************************************************************)
Py(t) == [k |-> "type", t |-> t]
UnionOf(args) == [k |-> "Union", args |-> args]
ListOf(origin, arg) == [k |-> origin, args |-> <<arg>>]
TupleOf(args) == [k |-> "tuple", args |-> args]
DictOf(args) == [k |-> "dict", args |-> args]
LiteralOf(vals) == [k |-> "Literal", vals |-> vals]
NotRequiredOf(arg) == [k |-> "NotRequired", args |-> <<arg>>]
CallableOf == [k |-> "Callable", args |-> <<>>]
OptionalOf(arg) == UnionOf(<<arg, Py("NoneType")>>)

get_origin(d) == IF d.k = "type" THEN "None" ELSE d.k
get_args(d) == IF d.k \in {"type", "Literal"} THEN <<>> ELSE d.args

Field(n, t) == [n |-> n, t |-> t]
Member(n, ty, v) == [n |-> n, ty |-> ty, v |-> v]
Class(kind, bases, ann) == [kind |-> kind, bases |-> bases, ann |-> ann, members |-> <<>>]
EnumClass(members) == [kind |-> "enum", bases |-> <<>>, ann |-> <<>>, members |-> members]

\* Classes of the interpreter and of the typing module.
Builtins ==
    [object   |-> Class("builtin", <<>>, <<>>),
     dict     |-> Class("builtin", <<>>, <<>>),
     ABC      |-> Class("builtin", <<>>, <<>>),
     str      |-> Class("builtin", <<>>, <<>>),
     int      |-> Class("builtin", <<>>, <<>>),
     float    |-> Class("builtin", <<>>, <<>>),
     bool     |-> Class("builtin", <<"int">>, <<>>),
     bytes    |-> Class("builtin", <<>>, <<>>),
     datetime |-> Class("builtin", <<>>, <<>>),
     NoneType |-> Class("builtin", <<>>, <<>>),
     Any      |-> Class("builtin", <<>>, <<>>),
     complex  |-> Class("builtin", <<>>, <<>>)]

\* The classes of the test modules (tests/test_typeddict.py,
\* tests/test_inheritance.py, tests/test_enum.py) and variations of them.
Fixture ==
    [Colors       |-> EnumClass(<<Member("Green", "int", "1"), Member("Red", "str", "red")>>),
     Weights      |-> EnumClass(<<Member("Half", "float", "0.5"), Member("One", "int", "1")>>),
     MyStr        |-> Class("plain", <<"str">>, <<>>),
     StringDict   |-> Class("typeddict", <<>>, <<Field("s", Py("str")), Field("i", Py("int")),
                            Field("f", Py("float")), Field("b", Py("bool")), Field("n", Py("NoneType"))>>),
     InnerDict    |-> Class("typeddict", <<>>, <<Field("s", Py("str"))>>),
     DeepDict     |-> Class("typeddict", <<>>, <<Field("deep", OptionalOf(Py("InnerDict")))>>),
     OuterDict    |-> Class("typeddict", <<>>, <<Field("nested", Py("InnerDict")),
                            Field("deep", OptionalOf(Py("DeepDict")))>>),
     RecursiveDict |-> Class("typeddict", <<>>, <<Field("s", Py("str")), Field("r", Py("RecursiveDict"))>>),
     Palette      |-> Class("typeddict", <<>>, <<Field("a", Py("Colors")),
                            Field("b", NotRequiredOf(Py("Colors")))>>),
     TBar         |-> Class("typeddict", <<>>, <<Field("bar", Py("str"))>>),
     TFoo         |-> Class("typeddict", <<"TBar">>, <<Field("foo", Py("str"))>>),
     Bar          |-> Class("dataclass", <<>>, <<Field("bar", Py("str"))>>),
     Baz          |-> Class("dataclass", <<>>, <<Field("baz", Py("str"))>>),
     Foo          |-> Class("dataclass", <<"Bar">>, <<Field("foo", Py("str"))>>),
     FooMulti     |-> Class("dataclass", <<"Bar", "Baz">>, <<Field("foo", Py("str"))>>),
     FooEmpty     |-> Class("dataclass", <<"Bar">>, <<>>),
     FooBar       |-> Class("dataclass", <<"Bar">>, <<Field("first", Py("Bar"))>>),
     Chain        |-> Class("dataclass", <<"Foo">>, <<Field("c", Py("str"))>>),
     PBar         |-> Class("plain", <<>>, <<Field("bar", Py("str"))>>),
     PBaz         |-> Class("plain", <<>>, <<Field("baz", Py("str"))>>),
     PFoo         |-> Class("plain", <<"PBar">>, <<Field("foo", Py("str"))>>),
     PFooMulti    |-> Class("plain", <<"PBar", "PBaz">>, <<Field("foo", Py("str"))>>),
     Base         |-> Class("dataclass", <<>>, <<>>),
     Child        |-> Class("dataclass", <<"Base">>, <<Field("x", Py("str"))>>),
     Holder       |-> Class("dataclass", <<"Base">>, <<Field("b", Py("Base"))>>),
     Outer2       |-> Class("dataclass", <<>>, <<Field("f", Py("Child")), Field("b", Py("Base"))>>),
     Mid          |-> Class("dataclass", <<"Base">>, <<Field("m", Py("str"))>>),
     Leaf         |-> Class("dataclass", <<"Mid">>, <<Field("l", Py("str"))>>),
     PBase        |-> Class("plain", <<>>, <<>>),
     PHolder      |-> Class("plain", <<"PBase">>, <<Field("b", Py("PBase"))>>),
     Shape        |-> Class("dataclass", <<"ABC">>, <<Field("a", Py("Any"))>>),
     Node         |-> Class("plain", <<>>, <<Field("next", Py("Node"))>>),
     Painted      |-> Class("dataclass", <<>>, <<Field("c", OptionalOf(Py("Colors"))),
                            Field("d", ListOf("List", Py("Colors")))>>),
     Ping         |-> Class("plain", <<>>, <<Field("pong", Py("Pong"))>>),
     Pong         |-> Class("plain", <<>>, <<Field("ping", Py("Ping"))>>),
     D            |-> Class("dataclass", <<>>, <<Field("x", Py("int"))>>)]

\* A module of three struct types that refer to each other through fields:
\* every directed graph on them, loops included, is one module.
GNames == {"G1", "G2", "G3"}
GOrder == <<"G1", "G2", "G3">>
GKind == [G1 |-> "dataclass", G2 |-> "typeddict", G3 |-> "dataclass"]
GField == [G1 |-> "g1", G2 |-> "g2", G3 |-> "g3"]
\* The call is made on G1: a reference written in a class that G1 does not
\* reach is never read, so only graphs without such references are kept.
GReach(edges) ==
    LET succ(S) == S \cup {e[2] : e \in {x \in edges : x[1] \in S}}
    IN  succ(succ({"G1"}))
Graphs == {edges \in SUBSET (GNames \X GNames) : \A e \in edges : e[1] \in GReach(edges)}

RECURSIVE EdgeFields(_, _, _)
EdgeFields(c, edges, i) ==
    IF i > Len(GOrder) THEN <<>>
    ELSE (IF <<c, GOrder[i]>> \in edges
          THEN <<Field(GField[GOrder[i]], Py(GOrder[i]))>> ELSE <<>>)
         \o EdgeFields(c, edges, i + 1)

GraphClass(c, edges) ==
    Class(GKind[c], <<>>, <<Field("s", Py("str"))>> \o EdgeFields(c, edges, 1))

Modules == {[mod |-> "fixture", edges |-> {}]} \cup {[mod |-> "graph", edges |-> e] : e \in Graphs}

UserClasses(m) == IF m.mod = "fixture" THEN DOMAIN Fixture ELSE GNames
ClassNames(m) == DOMAIN Builtins \cup UserClasses(m)
ClassOf(m, c) ==
    IF c \in DOMAIN Builtins THEN Builtins[c]
    ELSE IF m.mod = "fixture" THEN Fixture[c]
    ELSE GraphClass(c, m.edges)

(***************************************************************************)
(* What generate.py asks the interpreter about a class.                    *)
(***************************************************************************)
SeqSet(s) == {s[i] : i \in DOMAIN s}

RECURSIVE Ancestors(_, _)
Ancestors(m, c) ==
    LET direct == SeqSet(ClassOf(m, c).bases)
    IN  direct \cup UNION {Ancestors(m, b) : b \in direct}

isclass(d) == d.k = "type"
is_dataclass(m, d) ==
    /\ d.k = "type"
    /\ \E c \in {d.t} \cup Ancestors(m, d.t) : ClassOf(m, c).kind = "dataclass"
is_typeddict(m, d) == d.k = "type" /\ ClassOf(m, d.t).kind = "typeddict"
\* generate.py:96-100, issubclass(py_type, enum.Enum) with its errors swallowed
is_enum(m, d) == d.k = "type" /\ ClassOf(m, d.t).kind = "enum"

\* inspect.getmro as the set generate.py:142 makes of it.  A TypedDict class
\* has dict as its only base at run time, whatever TypedDict it extends.
getmro(m, c) ==
    IF ClassOf(m, c).kind = "typeddict" THEN {c, "dict", "object"}
    ELSE {c, "object"} \cup Ancestors(m, c)

RECURSIVE Reverse(_)
Reverse(s) == IF s = <<>> THEN <<>> ELSE Reverse(Tail(s)) \o <<Head(s)>>

\* typing.get_type_hints: the annotations of the bases, last base first,
\* then the class's own (field names are unique along a chain here).
RECURSIVE get_type_hints(_, _)
RECURSIVE HintsOfAll(_, _)
HintsOfAll(m, bs) ==
    IF bs = <<>> THEN <<>> ELSE get_type_hints(m, Head(bs)) \o HintsOfAll(m, Tail(bs))
get_type_hints(m, c) ==
    HintsOfAll(m, Reverse(ClassOf(m, c).bases)) \o ClassOf(m, c).ann

\* cls.__dict__["__annotations__"]: the fields written in the class body; the
\* TypedDict metaclass stores the inherited ones there too.
cls_annotations(m, c) ==
    IF ClassOf(m, c).kind = "typeddict"
    THEN {f.n : f \in SeqSet(get_type_hints(m, c))}
    ELSE {f.n : f \in SeqSet(ClassOf(m, c).ann)}

\* the hints with the inherited ones left in
_get_type_hints_all(m, c) == get_type_hints(m, c)

\* generate.py:261-270
_get_type_hints_no_inheritance(m, c) ==
    LET all_hints == get_type_hints(m, c)
        keep(f) == f.n \in cls_annotations(m, c)
    IN  SelectSeq(all_hints, keep)

_is_dict(d) == get_origin(d) = "dict" \/ d = Py("dict")

\* sqlalchemy is not installed: no wrapper type is known (generate.py:243-251)
_wrapper_types == {}

(***************************************************************************)
(* config.py                                                               *)
(***************************************************************************)
Options == {"comment_line_length", "none_as_null", "export_interfaces",
            "any_as_unknown", "indent_with_tabs", "indent_size"}

Config ==
    [comment_line_length |-> 80, none_as_null |-> TRUE, export_interfaces |-> TRUE,
     any_as_unknown |-> TRUE, indent_with_tabs |-> TRUE, indent_size |-> 4]

\* A MinimalConfig: the options it names and their values.
MinimalConfig(names, vals) == [names |-> names, vals |-> vals]
config_get(minimal, key, default) ==
    IF key \in minimal.names THEN minimal.vals[key] ELSE default

\* Config.override returns a new Config and leaves self as it is.
Config_override(self, minimal) ==
    [o \in Options |-> config_get(minimal, o, self[o])]

(***************************************************************************)
(* data.py: the primitive mapper and the nodes.                            *)
(***************************************************************************)
TYPE_MAP(cfg) ==
    LET table == [str |-> "string", int |-> "number", float |-> "number",
                  bool |-> "boolean", bytes |-> "Uint8Array", Any |-> "any",
                  datetime |-> "Date"]
        with_none == ("NoneType" :> (IF cfg.none_as_null THEN "null" ELSE "undefined")) @@ table
    IN  [with_none EXCEPT !["Any"] = IF cfg.any_as_unknown THEN "unknown" ELSE "any"]

\* The lookup done by subclass instead: the first entry of the table that
\* the type is, or derives from.
from_python_type_subclass(cfg, d) ==
    LET order == <<"str", "int", "float", "bool", "bytes", "Any", "datetime", "NoneType">>
        is_a(t, base) == t = base \/ base \in SeqSet(Builtins[t].bases)
        hits == IF d.k = "type" /\ d.t \in DOMAIN Builtins
                THEN {i \in DOMAIN order : is_a(d.t, order[i])} ELSE {}
    IN  IF hits = {} THEN "None"
        ELSE TYPE_MAP(cfg)[order[CHOOSE i \in hits : \A j \in hits : i <= j]]

\* data.py:38-72.  TYPE_MAP.get(py_type): a lookup by identity of the type;
\* "None" when absent.
from_python_type(cfg, d) ==
    IF d.k = "type" /\ d.t \in DOMAIN TYPE_MAP(cfg) THEN TYPE_MAP(cfg)[d.t] ELSE "None"

\* Nodes.  The dataclass-generated __eq__ compares the class and every field,
\* not_required included: that is equality of these records.  The Python
\* attribute `elements` is `elements` (a set), `element` (one node),
\* `key_value` (a list of two), `members` or `fields` (a dict, in order).
TSPrimitiveType(t) == [k |-> "TSPrimitiveType", not_required |-> FALSE, type |-> t]
TSLiteralType(v) == [k |-> "TSLiteralType", not_required |-> FALSE, value |-> v]
TSUnionType(es) == [k |-> "TSUnionType", not_required |-> FALSE, elements |-> es]
TSTupleType(es) == [k |-> "TSTupleType", not_required |-> FALSE, elements |-> es]
TSArrayType(e) == [k |-> "TSArrayType", not_required |-> FALSE, element |-> e]
TSRecordType(key, value) ==
    [k |-> "TSRecordType", not_required |-> FALSE, key_value |-> <<key, value>>]
TSEnumType(name, members) ==
    [k |-> "TSEnumType", not_required |-> FALSE, name |-> name, members |-> members]
TSInterfaceRef(name) == [k |-> "TSInterfaceRef", not_required |-> FALSE, name |-> name]
TSInterface(name, fields, inheritance) ==
    [k |-> "TSInterface", not_required |-> FALSE, name |-> name,
     fields |-> fields, inheritance |-> inheritance]

IsTSComplex(n) == n.k \in {"TSEnumType", "TSInterfaceRef", "TSInterface"}
IsDerivedType(n) == n.k \in {"TSUnionType", "TSTupleType", "TSArrayType", "TSRecordType"}

\* DerivedType.__iter__ as the set or list it walks
Children(n) ==
    CASE n.k \in {"TSUnionType", "TSTupleType"} -> n.elements
      [] n.k = "TSArrayType" -> {n.element}
      [] n.k = "TSRecordType" -> SeqSet(n.key_value)
      [] OTHER -> {}

\* DerivedType.__len__
NodeLen(n) == IF n.k \in {"TSUnionType", "TSTupleType"} THEN Cardinality(n.elements) ELSE 1

\* A method call on a node object: the object as the call leaves it, and
\* the object the call returns.
Call(self, ret) == [self |-> self, ret |-> ret]

\* exclude that deletes the named entries of the receiver and returns it
exclude_in_place(self, names) ==
    LET keep(f) == f.n \notin names
        cut == CASE self.k = "TSEnumType" -> [self EXCEPT !.members = SelectSeq(@, keep)]
                 [] self.k = "TSInterface" -> [self EXCEPT !.fields = SelectSeq(@, keep)]
                 [] OTHER -> self
    IN  Call(cut, cut)

RECURSIVE exclude(_, _)
\* data.py:369-382 (TSComplex), 414-428 (TSEnumType), 515-532 (TSInterface):
\* a new object is built from the entries that stay; the parent of an
\* interface is excluded from in the same way.
exclude(self, names) ==
    LET keep(f) == f.n \notin names
    IN  CASE self.k = "TSEnumType" ->
                Call(self, TSEnumType(self.name, SelectSeq(self.members, keep)))
          [] self.k = "TSInterface" ->
                Call(self, TSInterface(self.name, SelectSeq(self.fields, keep),
                                       IF self.inheritance # <<>>
                                       THEN <<exclude(self.inheritance[1], names).ret>>
                                       ELSE <<>>))
          [] OTHER -> Call(self, self)

(***************************************************************************)
(* generate.py: the recursive descent, one activation record per call that *)
(* has sub-calls to make.                                                  *)
(***************************************************************************)
NoError == [exc |-> "None", why |-> ""]
UnsupportedType == [exc |-> "NotImplementedError", why |-> "Conversion of type is not yet implemented"]
MultipleInheritance == [exc |-> "NotImplementedError", why |-> "Multiple inheritance is not supported by typescript"]
BaseNotInterface == [exc |-> "AssertionError", why |-> "Base class is not an interface but a primitive type"]
RecursionError == [exc |-> "RecursionError", why |-> "maximum recursion depth exceeded"]

Frame(fn, name, hints, bases) ==
    [fn |-> fn, name |-> name,
     names |-> [i \in DOMAIN hints |-> hints[i].n],
     todo |-> [i \in DOMAIN hints |-> hints[i].t],
     done |-> <<>>, bases |-> bases, in_base |-> FALSE, valid_bases |-> <<>>]

ArgFrame(fn, args) == Frame(fn, "", [i \in DOMAIN args |-> Field("", args[i])], {})

Returns(node, ifs) == [kind |-> "return", value |-> <<node>>, exc |-> NoError, frame |-> <<>>, interfaces |-> ifs]
Raises(exc, ifs) == [kind |-> "raise", value |-> <<>>, exc |-> exc, frame |-> <<>>, interfaces |-> ifs]
Calls(frame, ifs) == [kind |-> "call", value |-> <<>>, exc |-> NoError, frame |-> <<frame>>, interfaces |-> ifs]

\* _classlike_to_ts without bases.discard(dict)
_classlike_to_ts_keeps_dict(m, c) ==
    Frame("classlike", c, _get_type_hints_no_inheritance(m, c),
          getmro(m, c) \ {c, "object", "ABC"})

\* generate.py:129-146: the hints to convert and the set of bases to walk
_classlike_to_ts(m, c) ==
    Frame("classlike", c, _get_type_hints_no_inheritance(m, c),
          getmro(m, c) \ {c, "object", "dict", "ABC"})

\* generate.py:171-178
_enum_to_ts(m, c) == TSEnumType(c, ClassOf(m, c).members)

\* generate.py:116-126: the arguments, filled with Any until there are two
_dict_to_ts(d) ==
    LET args == get_args(d)
        padded == IF Len(args) = 2 THEN args
                  ELSE args \o [i \in 1..(2 - Len(args)) |-> Py("Any")]
    IN  ArgFrame("dict", padded)

LiteralValue(ty, v) == [ty |-> ty, v |-> v]

\* generate.py:181-240
_basic_to_ts(m, cfg, ifs, d) ==
    LET origin == get_origin(d)
        primitive == from_python_type(cfg, d)
    IN  IF origin \in _wrapper_types THEN Calls(ArgFrame("wrapper", <<get_args(d)[1]>>), ifs)
        ELSE IF origin = "NotRequired" THEN Calls(ArgFrame("NotRequired", <<get_args(d)[1]>>), ifs)
        ELSE IF origin = "Union" THEN Calls(ArgFrame("Union", get_args(d)), ifs)
        ELSE IF origin \in {"List", "Sequence"} THEN Calls(ArgFrame("list", <<get_args(d)[1]>>), ifs)
        ELSE IF origin = "tuple" THEN Calls(ArgFrame("tuple", get_args(d)), ifs)
        ELSE IF origin = "Literal" THEN
            (IF Len(d.vals) = 1 THEN Returns(TSLiteralType(d.vals[1]), ifs)
             ELSE Returns(TSUnionType({TSLiteralType(v) : v \in SeqSet(d.vals)}), ifs))
        ELSE IF primitive # "None" THEN Returns(TSPrimitiveType(primitive), ifs)
        ELSE IF isclass(d) THEN Calls(_classlike_to_ts(m, d.t), ifs)
        ELSE Raises(UnsupportedType, ifs)

\* _generate_ts with the test `py_type in interfaces` left out
_generate_ts_unguarded(m, cfg, ifs, d) ==
    IF is_dataclass(m, d) \/ is_typeddict(m, d) THEN Calls(_classlike_to_ts(m, d.t), ifs \cup {d.t})
    ELSE IF is_enum(m, d) THEN Returns(_enum_to_ts(m, d.t), ifs)
    ELSE IF _is_dict(d) THEN Calls(_dict_to_ts(d), ifs)
    ELSE _basic_to_ts(m, cfg, ifs, d)

\* generate.py:87-113
_generate_ts(m, cfg, ifs, d) ==
    IF is_dataclass(m, d) \/ is_typeddict(m, d) THEN
        (IF d.t \in ifs THEN Returns(TSInterfaceRef(d.t), ifs)
         ELSE Calls(_classlike_to_ts(m, d.t), ifs \cup {d.t}))
    ELSE IF is_enum(m, d) THEN Returns(_enum_to_ts(m, d.t), ifs)
    ELSE IF _is_dict(d) THEN Calls(_dict_to_ts(d), ifs)
    ELSE _basic_to_ts(m, cfg, ifs, d)

\* The caller takes the value of a sub-call: a field or member value
\* (generate.py:138, 205, 210, 215), or a base (generate.py:151-158).
Deliver(f, v) ==
    IF f.in_base THEN
        IF v.k \notin {"TSInterface", "TSInterfaceRef"}
        THEN [exc |-> BaseNotInterface, frame |-> f]
        ELSE IF v.k = "TSInterface" /\ Len(v.fields) = 0
        THEN [exc |-> NoError, frame |-> [f EXCEPT !.in_base = FALSE]]
        ELSE [exc |-> NoError,
              frame |-> [f EXCEPT !.in_base = FALSE, !.valid_bases = Append(@, v)]]
    ELSE [exc |-> NoError, frame |-> [f EXCEPT !.done = Append(@, v), !.todo = Tail(@)]]

FieldValue(n, v) == [n |-> n, v |-> v]

\* generate.py:160-168: the parent of the interface, if there is one
Inheritance(valid_bases) ==
    IF Len(valid_bases) = 1 THEN <<valid_bases[1]>> ELSE <<>>

\* generate.py:162 with the bound off by one
TooManyBases_lenient(valid_bases) == Len(valid_bases) > 2

\* generate.py:162
TooManyBases(valid_bases) == Len(valid_bases) > 1

\* What a call with no sub-call left to make returns or raises.
Finish(f, ifs) ==
    CASE f.fn = "classlike" ->
            IF TooManyBases(f.valid_bases) THEN Raises(MultipleInheritance, ifs)
            ELSE Returns(TSInterface(f.name,
                                     [i \in DOMAIN f.done |-> FieldValue(f.names[i], f.done[i])],
                                     Inheritance(f.valid_bases)), ifs)
      [] f.fn = "Union" -> Returns(TSUnionType(SeqSet(f.done)), ifs)
      [] f.fn = "tuple" -> Returns(TSTupleType(SeqSet(f.done)), ifs)
      [] f.fn = "list" -> Returns(TSArrayType(f.done[1]), ifs)
      [] f.fn = "dict" -> Returns(TSRecordType(f.done[1], f.done[2]), ifs)
      [] f.fn = "NotRequired" -> Returns([f.done[1] EXCEPT !.not_required = TRUE], ifs)
      [] f.fn = "wrapper" -> Returns(f.done[1], ifs)


Raise(exc) ==
    /\ pc' = "error"
    /\ error' = exc
    /\ stack' = <<>>
    /\ result' = <<>>

\* The callers `stk` go on with the outcome of the call they made.
Resume(stk, outcome) ==
    /\ interfaces' = outcome.interfaces
    /\ CASE outcome.kind = "call" ->
                IF Len(stk) >= RecursionLimit THEN Raise(RecursionError)
                ELSE /\ stack' = Append(stk, outcome.frame[1])
                     /\ pc' = "running"
                     /\ result' = <<>>
                     /\ error' = NoError
         [] outcome.kind = "raise" -> Raise(outcome.exc)
         [] outcome.kind = "return" ->
                IF stk = <<>>
                THEN /\ pc' = "done"
                     /\ result' = outcome.value
                     /\ stack' = <<>>
                     /\ error' = NoError
                ELSE LET got == Deliver(stk[Len(stk)], outcome.value[1])
                     IN  IF got.exc # NoError THEN Raise(got.exc)
                         ELSE /\ stack' = [stk EXCEPT ![Len(stk)] = got.frame]
                              /\ pc' = "running"
                              /\ result' = <<>>
                              /\ error' = NoError

Top == stack[Len(stack)]
Front(s) == SubSeq(s, 1, Len(s) - 1)

(***************************************************************************)
(* data.py: rendering.  A text is a sequence of tokens; Ascii gives the    *)
(* characters of a token, by which Python compares and sorts strings.      *)
(***************************************************************************)
\* The code points of every token a text is made of.
Ascii ==
    ("export " :> <<101, 120, 112, 111, 114, 116, 32>>) @@
    ("interface " :> <<105, 110, 116, 101, 114, 102, 97, 99, 101, 32>>) @@
    ("enum " :> <<101, 110, 117, 109, 32>>) @@
    ("type " :> <<116, 121, 112, 101, 32>>) @@
    (" extends " :> <<32, 101, 120, 116, 101, 110, 100, 115, 32>>) @@
    (" {\n" :> <<32, 123, 10>>) @@
    ("}" :> <<125>>) @@
    ("\t" :> <<9>>) @@
    (" " :> <<32>>) @@
    (": " :> <<58, 32>>) @@
    (";\n" :> <<59, 10>>) @@
    ("?" :> <<63>>) @@
    (" = " :> <<32, 61, 32>>) @@
    ("'" :> <<39>>) @@
    (",\n" :> <<44, 10>>) @@
    ("\n\n" :> <<10, 10>>) @@
    (" | " :> <<32, 124, 32>>) @@
    ("Array<" :> <<65, 114, 114, 97, 121, 60>>) @@
    (">" :> <<62>>) @@
    ("[" :> <<91>>) @@
    ("]" :> <<93>>) @@
    (", " :> <<44, 32>>) @@
    ("Record<" :> <<82, 101, 99, 111, 114, 100, 60>>) @@
    ("\"" :> <<34>>) @@
    ("<ValueError>" :> <<60, 86, 97, 108, 117, 101, 69, 114, 114, 111, 114, 62>>) @@
    ("string" :> <<115, 116, 114, 105, 110, 103>>) @@
    ("number" :> <<110, 117, 109, 98, 101, 114>>) @@
    ("boolean" :> <<98, 111, 111, 108, 101, 97, 110>>) @@
    ("null" :> <<110, 117, 108, 108>>) @@
    ("undefined" :> <<117, 110, 100, 101, 102, 105, 110, 101, 100>>) @@
    ("unknown" :> <<117, 110, 107, 110, 111, 119, 110>>) @@
    ("any" :> <<97, 110, 121>>) @@
    ("Uint8Array" :> <<85, 105, 110, 116, 56, 65, 114, 114, 97, 121>>) @@
    ("Date" :> <<68, 97, 116, 101>>) @@
    ("object" :> <<111, 98, 106, 101, 99, 116>>) @@
    ("dict" :> <<100, 105, 99, 116>>) @@
    ("ABC" :> <<65, 66, 67>>) @@
    ("str" :> <<115, 116, 114>>) @@
    ("int" :> <<105, 110, 116>>) @@
    ("float" :> <<102, 108, 111, 97, 116>>) @@
    ("bool" :> <<98, 111, 111, 108>>) @@
    ("bytes" :> <<98, 121, 116, 101, 115>>) @@
    ("datetime" :> <<100, 97, 116, 101, 116, 105, 109, 101>>) @@
    ("NoneType" :> <<78, 111, 110, 101, 84, 121, 112, 101>>) @@
    ("Any" :> <<65, 110, 121>>) @@
    ("complex" :> <<99, 111, 109, 112, 108, 101, 120>>) @@
    ("Colors" :> <<67, 111, 108, 111, 114, 115>>) @@
    ("Weights" :> <<87, 101, 105, 103, 104, 116, 115>>) @@
    ("Half" :> <<72, 97, 108, 102>>) @@
    ("One" :> <<79, 110, 101>>) @@
    ("0.5" :> <<48, 46, 53>>) @@
    ("MyStr" :> <<77, 121, 83, 116, 114>>) @@
    ("StringDict" :> <<83, 116, 114, 105, 110, 103, 68, 105, 99, 116>>) @@
    ("InnerDict" :> <<73, 110, 110, 101, 114, 68, 105, 99, 116>>) @@
    ("DeepDict" :> <<68, 101, 101, 112, 68, 105, 99, 116>>) @@
    ("OuterDict" :> <<79, 117, 116, 101, 114, 68, 105, 99, 116>>) @@
    ("RecursiveDict" :> <<82, 101, 99, 117, 114, 115, 105, 118, 101, 68, 105, 99, 116>>) @@
    ("Palette" :> <<80, 97, 108, 101, 116, 116, 101>>) @@
    ("TBar" :> <<84, 66, 97, 114>>) @@
    ("TFoo" :> <<84, 70, 111, 111>>) @@
    ("Bar" :> <<66, 97, 114>>) @@
    ("Baz" :> <<66, 97, 122>>) @@
    ("Foo" :> <<70, 111, 111>>) @@
    ("FooMulti" :> <<70, 111, 111, 77, 117, 108, 116, 105>>) @@
    ("FooEmpty" :> <<70, 111, 111, 69, 109, 112, 116, 121>>) @@
    ("FooBar" :> <<70, 111, 111, 66, 97, 114>>) @@
    ("Chain" :> <<67, 104, 97, 105, 110>>) @@
    ("PBar" :> <<80, 66, 97, 114>>) @@
    ("PBaz" :> <<80, 66, 97, 122>>) @@
    ("PFoo" :> <<80, 70, 111, 111>>) @@
    ("PFooMulti" :> <<80, 70, 111, 111, 77, 117, 108, 116, 105>>) @@
    ("Base" :> <<66, 97, 115, 101>>) @@
    ("Child" :> <<67, 104, 105, 108, 100>>) @@
    ("Holder" :> <<72, 111, 108, 100, 101, 114>>) @@
    ("Outer2" :> <<79, 117, 116, 101, 114, 50>>) @@
    ("Mid" :> <<77, 105, 100>>) @@
    ("Leaf" :> <<76, 101, 97, 102>>) @@
    ("PBase" :> <<80, 66, 97, 115, 101>>) @@
    ("PHolder" :> <<80, 72, 111, 108, 100, 101, 114>>) @@
    ("Shape" :> <<83, 104, 97, 112, 101>>) @@
    ("Node" :> <<78, 111, 100, 101>>) @@
    ("D" :> <<68>>) @@
    ("s" :> <<115>>) @@
    ("i" :> <<105>>) @@
    ("f" :> <<102>>) @@
    ("b" :> <<98>>) @@
    ("n" :> <<110>>) @@
    ("deep" :> <<100, 101, 101, 112>>) @@
    ("nested" :> <<110, 101, 115, 116, 101, 100>>) @@
    ("r" :> <<114>>) @@
    ("a" :> <<97>>) @@
    ("bar" :> <<98, 97, 114>>) @@
    ("foo" :> <<102, 111, 111>>) @@
    ("baz" :> <<98, 97, 122>>) @@
    ("first" :> <<102, 105, 114, 115, 116>>) @@
    ("c" :> <<99>>) @@
    ("x" :> <<120>>) @@
    ("m" :> <<109>>) @@
    ("l" :> <<108>>) @@
    ("next" :> <<110, 101, 120, 116>>) @@
    ("Green" :> <<71, 114, 101, 101, 110>>) @@
    ("1" :> <<49>>) @@
    ("Red" :> <<82, 101, 100>>) @@
    ("red" :> <<114, 101, 100>>) @@
    ("G1" :> <<71, 49>>) @@
    ("G2" :> <<71, 50>>) @@
    ("G3" :> <<71, 51>>) @@
    ("g1" :> <<103, 49>>) @@
    ("g2" :> <<103, 50>>) @@
    ("<NotImplementedError>" :> <<60, 78, 111, 116, 73, 109, 112, 108, 101, 109, 101, 110, 116, 101, 100, 69, 114, 114, 111, 114, 62>>) @@
    ("Painted" :> <<80, 97, 105, 110, 116, 101, 100>>) @@
    ("Ping" :> <<80, 105, 110, 103>>) @@
    ("Pong" :> <<80, 111, 110, 103>>) @@
    ("ping" :> <<112, 105, 110, 103>>) @@
    ("pong" :> <<112, 111, 110, 103>>) @@
    ("d" :> <<100>>) @@
    ("g3" :> <<103, 51>>)

RECURSIVE CodesOf(_)
CodesOf(txt) == IF txt = <<>> THEN <<>> ELSE Ascii[Head(txt)] \o CodesOf(Tail(txt))

\* a < b for two strings, as lists of code points
RECURSIVE LexLess(_, _)
LexLess(a, b) ==
    IF b = <<>> THEN FALSE
    ELSE IF a = <<>> THEN TRUE
    ELSE IF Head(a) # Head(b) THEN Head(a) < Head(b)
    ELSE LexLess(Tail(a), Tail(b))

StrLess(a, b) == LexLess(CodesOf(a), CodesOf(b))

\* sorted(): stable, the first of two equal keys stays first.  Items are
\* pairs of the string compared and the value sorted.
Keyed(key, val) == [key |-> CodesOf(key), val |-> val]

RECURSIVE Insert(_, _)
Insert(x, sorted) ==
    IF sorted = <<>> THEN <<x>>
    ELSE IF LexLess(x.key, Head(sorted).key) THEN <<x>> \o sorted
    ELSE <<Head(sorted)>> \o Insert(x, Tail(sorted))

RECURSIVE InsertionSort(_)
InsertionSort(s) ==
    IF s = <<>> THEN <<>>
    ELSE Insert(s[Len(s)], InsertionSort(SubSeq(s, 1, Len(s) - 1)))

Sorted(items) ==
    LET s == InsertionSort(items) IN [i \in DOMAIN s |-> s[i].val]

SortedStrs(strs) == Sorted([i \in DOMAIN strs |-> Keyed(strs[i], strs[i])])

\* The order in which a Python set yields its members is not specified; one
\* order stands for it where the members are sorted right after.
RECURSIVE SetToSeq(_)
SetToSeq(S) ==
    IF S = {} THEN <<>>
    ELSE LET x == CHOOSE y \in S : TRUE IN <<x>> \o SetToSeq(S \ {x})

RECURSIVE Join(_, _)
Join(sep, texts) ==
    IF texts = <<>> THEN <<>>
    ELSE IF Len(texts) = 1 THEN texts[1]
    ELSE texts[1] \o <<sep>> \o Join(sep, Tail(texts))

RECURSIVE Concat(_)
Concat(texts) == IF texts = <<>> THEN <<>> ELSE Head(texts) \o Concat(Tail(texts))

\* A text that holds this token stands for the exception raised while it
\* was built: ValueError("Invalid value for enum").
ValueErrorToken == "<ValueError>"
ValueError == [exc |-> "ValueError", why |-> "Invalid value for enum"]
RaisedIn(txt) == ValueErrorToken \in SeqSet(txt)

\* Likewise for NotImplementedError("Array of multiple types is not supported!")
UnsupportedNestingToken == "<NotImplementedError>"
UnsupportedNesting ==
    [exc |-> "NotImplementedError", why |-> "Array of multiple types is not supported!"]

\* The indent with indent_size left unread
TAB_default_size(cfg) == IF cfg.indent_with_tabs THEN <<"\t">> ELSE <<" ", " ", " ", " ">>

\* config.py:64-67
TAB(cfg) == IF cfg.indent_with_tabs THEN <<"\t">> ELSE [i \in 1..cfg.indent_size |-> " "]

Prefix(cfg) == IF cfg.export_interfaces THEN <<"export ">> ELSE <<>>

\* data.py:391-408
EnumStr(cfg, n) ==
    LET line(e) ==
            IF e.ty = "str" THEN TAB(cfg) \o <<e.n, " = ", "'", e.v, "'", ",\n">>
            ELSE IF e.ty = "int" THEN TAB(cfg) \o <<e.n, " = ", e.v, ",\n">>
            ELSE <<ValueErrorToken>>
    IN  Prefix(cfg) \o <<"enum ", n.name, " {\n">>
        \o Concat([i \in DOMAIN n.members |-> line(n.members[i])]) \o <<"}">>

RECURSIVE Str(_, _)

\* data.py:84-98 for one element: the name of a complex type, else its str
ElementName(cfg, t) == IF IsTSComplex(t) THEN <<t.name>> ELSE Str(cfg, t)

_elements_to_names(cfg, elements, sort) ==
    LET strs == [i \in DOMAIN elements |-> ElementName(cfg, elements[i])]
    IN  IF sort THEN SortedStrs(strs) ELSE strs

\* The interface always as a block, the edge case of data.py:463-464 left out
InterfaceStr_block(cfg, n) ==
    LET line(f) ==
            TAB(cfg) \o <<f.n>> \o (IF f.v.not_required THEN <<"?">> ELSE <<>>)
            \o <<": ">> \o _elements_to_names(cfg, <<f.v>>, TRUE)[1] \o <<";\n">>
    IN  Prefix(cfg) \o <<"interface ", n.name>>
        \o (IF n.inheritance # <<>> THEN <<" extends ", n.inheritance[1].name>> ELSE <<>>)
        \o <<" {\n">>
        \o Concat([i \in DOMAIN n.fields |-> line(n.fields[i])])
        \o <<"}">>

\* data.py:455-483
InterfaceStr(cfg, n) ==
    LET line(f) ==
            TAB(cfg) \o <<f.n>> \o (IF f.v.not_required THEN <<"?">> ELSE <<>>)
            \o <<": ">> \o _elements_to_names(cfg, <<f.v>>, TRUE)[1] \o <<";\n">>
    IN  IF Len(n.fields) = 0 /\ n.inheritance # <<>>
        THEN Prefix(cfg) \o <<"type ", n.name, " = ", n.inheritance[1].name, ";\n">>
        ELSE Prefix(cfg) \o <<"interface ", n.name>>
             \o (IF n.inheritance # <<>> THEN <<" extends ", n.inheritance[1].name>> ELSE <<>>)
             \o <<" {\n">>
             \o Concat([i \in DOMAIN n.fields |-> line(n.fields[i])])
             \o <<"}">>

\* isinstance(x, Set) or isinstance(x, Sequence), data.py:259: true of a bare
\* set or list, and of no node, as no node class is or registers as either.
IsSetOrSequence(x) == x.k \in {"set", "list"}

\* The array that refuses an element of more than one member
ArrayStr_rejects_plural(cfg, n) ==
    IF n.element.k \in {"TSUnionType", "TSTupleType"} /\ NodeLen(n.element) > 1
    THEN <<UnsupportedNestingToken>>
    ELSE <<"Array<">> \o _elements_to_names(cfg, <<n.element>>, TRUE)[1] \o <<">">>

\* data.py:257-262
ArrayStr(cfg, n) ==
    IF IsSetOrSequence(n.element) THEN <<UnsupportedNestingToken>>
    ELSE <<"Array<">> \o _elements_to_names(cfg, <<n.element>>, TRUE)[1] \o <<">">>

\* data.py:232-241
UnionStr(cfg, n) ==
    LET members == SetToSeq(n.elements)
        strs == [i \in DOMAIN members |->
                    IF members[i].k = "TSInterface" THEN <<members[i].name>>
                    ELSE Str(cfg, members[i])]
    IN  Join(" | ", SortedStrs(strs))

\* __str__ of each node class
Str(cfg, n) ==
    CASE n.k = "TSPrimitiveType" -> <<n.type>>
      [] n.k = "TSLiteralType" -> <<"\"", n.value.v, "\"">>
      [] n.k = "TSInterfaceRef" -> <<n.name>>
      [] n.k = "TSUnionType" -> UnionStr(cfg, n)
      [] n.k = "TSArrayType" -> ArrayStr(cfg, n)
      [] n.k = "TSTupleType" ->
            <<"[">> \o Join(", ", _elements_to_names(cfg, SetToSeq(n.elements), TRUE)) \o <<"]">>
      [] n.k = "TSRecordType" ->
            <<"Record<">> \o Join(", ", _elements_to_names(cfg, n.key_value, FALSE)) \o <<">">>
      [] n.k = "TSEnumType" -> EnumStr(cfg, n)
      [] n.k = "TSInterface" -> InterfaceStr(cfg, n)
      [] n.k = "TypescriptIntersectionType" ->
            Join(" & ", _elements_to_names(cfg, SetToSeq(n.elements), TRUE))

\* TypescriptType.__lt__ (data.py:128-130)
NodeLess(cfg, a, b) == StrLess(Str(cfg, a), Str(cfg, b))

SortedNodes(cfg, nodes) ==
    Sorted([i \in DOMAIN nodes |-> Keyed(Str(cfg, nodes[i]), nodes[i])])

\* data.py:564-596.  st is the pair of the closure's variables: visited and
\* full_str.
RECURSIVE parse_elements(_, _, _)
RECURSIVE ParseEach(_, _, _)
RECURSIVE ParseMembers(_, _, _, _)

ParseEach(cfg, st, elems) ==
    IF elems = <<>> THEN st
    ELSE ParseEach(cfg, parse_elements(cfg, st, Head(elems)), Tail(elems))

\* data.py:589-594: the loop over the members of a derived type
ParseMembers(cfg, st, element, elems) ==
    IF elems = <<>> THEN st
    ELSE IF element \in st.visited THEN ParseMembers(cfg, st, element, Tail(elems))
    ELSE LET after == parse_elements(cfg, st, Head(elems))
         IN  ParseMembers(cfg, [after EXCEPT !.visited = @ \cup {Head(elems)}],
                          element, Tail(elems))

parse_elements(cfg, st, element) ==
    IF element \in st.visited THEN st
    ELSE IF element.k = "TSInterface" THEN
        LET declared == [visited |-> st.visited \cup {element},
                         full_str |-> Str(cfg, element) \o <<"\n\n">> \o st.full_str]
            values == [i \in DOMAIN element.fields |-> element.fields[i].v]
        IN  ParseEach(cfg, declared, values \o element.inheritance)
    ELSE IF element.k = "TSEnumType" THEN
        [visited |-> st.visited \cup {element},
         full_str |-> Str(cfg, element) \o <<"\n\n">> \o st.full_str]
    ELSE IF IsDerivedType(element) THEN
        LET members == IF element.k = "TSRecordType" THEN element.key_value
                       ELSE SetToSeq(Children(element))
        IN  ParseMembers(cfg, st, element, SortedNodes(cfg, members))
    ELSE [st EXCEPT !.visited = @ \cup {element}]

\* data.py:535-601
ts_reference_str(cfg, elements, ignore) ==
    IF elements = <<>> THEN <<>>
    ELSE ParseEach(cfg, [visited |-> ignore, full_str |-> <<>>],
                   SortedNodes(cfg, elements)).full_str

\* data.py:485-497
full_str(cfg, self) ==
    LET this_interface_str == Str(cfg, self)
        refs == [i \in DOMAIN self.fields |-> self.fields[i].v] \o self.inheritance
    IN  ts_reference_str(cfg, SortedNodes(cfg, refs), {}) \o this_interface_str

\* What the caller of a rendering gets: the string, or the exception.
Outcome(txt) ==
    IF RaisedIn(txt) THEN [exc |-> ValueError, s |-> <<>>]
    ELSE IF UnsupportedNestingToken \in SeqSet(txt) THEN [exc |-> UnsupportedNesting, s |-> <<>>]
    ELSE [exc |-> NoError, s |-> txt]

NoText == [str |-> Outcome(<<>>), full_str |-> Outcome(<<>>)]

\* The closure rendering of a node: full_str() of an interface, and
\* ts_reference_str of the node itself for every other kind.
Closure(cfg, node) ==
    IF node.k = "TSInterface" THEN full_str(cfg, node)
    ELSE ts_reference_str(cfg, <<node>>, {})

(***************************************************************************)
(* The inputs of the top-level call.                                       *)
(***************************************************************************)
Composites ==
    {OptionalOf(Py("str")), OptionalOf(Py("int")),
     UnionOf(<<Py("str"), Py("int")>>), UnionOf(<<Py("float"), Py("int")>>),
     UnionOf(<<Py("bool"), Py("int")>>), UnionOf(<<Py("float"), Py("bool"), Py("int")>>),
     UnionOf(<<ListOf("List", Py("D")), ListOf("Sequence", Py("D"))>>),
     UnionOf(<<ListOf("List", Py("int")), ListOf("Sequence", Py("float"))>>),
     UnionOf(<<Py("Colors"), Py("NoneType")>>),
     ListOf("List", Py("str")), ListOf("Sequence", Py("InnerDict")),
     ListOf("List", UnionOf(<<Py("int"), Py("str")>>)),
     ListOf("List", TupleOf(<<Py("str"), Py("int")>>)),
     TupleOf(<<Py("str"), Py("int")>>), TupleOf(<<Py("int"), Py("float")>>),
     TupleOf(<<Py("D"), Py("D")>>),
     DictOf(<<Py("str"), Py("int")>>), DictOf(<<Py("str"), Py("InnerDict")>>), Py("dict"),
     LiteralOf(<<LiteralValue("str", "a")>>),
     LiteralOf(<<LiteralValue("str", "a"), LiteralValue("str", "b")>>),
     NotRequiredOf(Py("int")), CallableOf}

Roots(m) ==
    IF m.mod = "fixture"
    THEN {Py(c) : c \in ClassNames(m) \ {"object", "dict", "ABC"}} \cup Composites
    ELSE {Py("G1")}

\* generate_ts(py_type) and generate_ts(py_type, {"none_as_null": False})
NoConfig == MinimalConfig({}, Config)
Overrides == {NoConfig, MinimalConfig({"none_as_null"}, [Config EXCEPT !.none_as_null = FALSE])}

(***************************************************************************)
(* Actions.                                                                *)
(***************************************************************************)
Init ==
    /\ types \in Modules
    /\ CONFIG = Config
    /\ interfaces = {}
    /\ stack = <<>>
    /\ pc = "idle"
    /\ py_type = Py("object")
    /\ config = NoConfig
    /\ result = <<>>
    /\ error = NoError
    /\ text = NoText
    /\ writes = 0
    /\ excluded = <<>>
    /\ threads = <<>>

\* The set left as the earlier calls filled it
interfaces_kept(ifs) == ifs

\* generate.py:75-77: interfaces.clear()
interfaces_clear(ifs) == {}

\* generate.py:48-79.  The Config that override returns is dropped.
generate_ts(d, cfg) ==
    /\ pc # "running"
    /\ py_type' = d
    /\ config' = cfg
    /\ LET reset == IF cfg.names # {} THEN Config ELSE CONFIG
           dropped == Config_override(reset, cfg)
       IN  /\ CONFIG' = reset
           /\ Resume(<<>>, _generate_ts(types, reset, interfaces_clear(interfaces), d))
    /\ text' = NoText
    /\ excluded' = <<>>
    /\ UNCHANGED <<types, writes, threads>>

\* The next field annotation or type argument is converted
\* (generate.py:137-138, 205, 210, 215, 126, 198).
ConvertNext ==
    /\ pc = "running"
    /\ Top.todo # <<>>
    /\ Resume(stack, _generate_ts(types, CONFIG, interfaces, Head(Top.todo)))
    /\ UNCHANGED <<types, CONFIG, py_type, config, text, writes, excluded, threads>>

\* generate.py:150-151: the next base, in the order the set yields them
ConvertBase ==
    /\ pc = "running"
    /\ Top.todo = <<>>
    /\ \E base \in Top.bases :
         LET waiting == [Top EXCEPT !.bases = @ \ {base}, !.in_base = TRUE]
         IN  Resume([stack EXCEPT ![Len(stack)] = waiting],
                    _generate_ts(types, CONFIG, interfaces, Py(base)))
    /\ UNCHANGED <<types, CONFIG, py_type, config, text, writes, excluded, threads>>

\* The innermost call returns to its caller, or raises.
Return ==
    /\ pc = "running"
    /\ Top.todo = <<>>
    /\ Top.bases = {}
    /\ Resume(Front(stack), Finish(Top, interfaces))
    /\ UNCHANGED <<types, CONFIG, py_type, config, text, writes, excluded, threads>>

\* CONFIG.none_as_null = False, as tests/test_union.py:23 and
\* tests/test_tabvspaces.py:23-24 do between calls.
Flags == {"none_as_null", "any_as_unknown", "export_interfaces"}
SetOption(o, v) ==
    /\ pc # "running"
    /\ writes < MaxConfigWrites
    /\ CONFIG[o] # v
    /\ CONFIG' = [CONFIG EXCEPT ![o] = v]
    /\ writes' = writes + 1
    /\ UNCHANGED <<types, interfaces, stack, pc, py_type, config, result, error, text, excluded,
                   threads>>

\* tests/test_tabvspaces.py:15 and 23-28: CONFIG.indent_with_tabs and
\* CONFIG.indent_size are assigned together by the caller.
Indents == {[tabs |-> TRUE, size |-> 4], [tabs |-> FALSE, size |-> 2],
            [tabs |-> FALSE, size |-> 4]}
SetIndent(i) ==
    /\ pc # "running"
    /\ writes < MaxConfigWrites
    /\ <<CONFIG.indent_with_tabs, CONFIG.indent_size>> # <<i.tabs, i.size>>
    /\ CONFIG' = [CONFIG EXCEPT !.indent_with_tabs = i.tabs, !.indent_size = i.size]
    /\ writes' = writes + 1
    /\ UNCHANGED <<types, interfaces, stack, pc, py_type, config, result, error, text, excluded,
                   threads>>

\* tests/test_typeddict.py:28-36: ts = ts.exclude(names) on the node the
\* call returned, once per call.
\* The names of the entries of a node and of its parents
RECURSIVE EntryNames(_)
EntryNames(n) ==
    CASE n.k = "TSEnumType" -> {e.n : e \in SeqSet(n.members)}
      [] n.k = "TSInterface" ->
            {f.n : f \in SeqSet(n.fields)}
            \cup (IF n.inheritance # <<>> THEN EntryNames(n.inheritance[1]) ELSE {})
      [] OTHER -> {}

\* The caller excludes names of which the node, or a parent, has at least one.
ExcludeArgs(m, node) ==
    {names \in (IF m.mod = "fixture" THEN {{"s", "i"}, {"Green"}, {"bar", "foo"}}
                ELSE {{"g2"}}) : names \cap EntryNames(node) # {}}
Exclude ==
    /\ pc = "done"
    /\ excluded = <<>>
    /\ IsTSComplex(result[1])
    /\ \E names \in ExcludeArgs(types, result[1]) :
         LET call == exclude(result[1], names)
         IN  /\ excluded' = <<[receiver |-> result[1], after |-> call.self, names |-> names]>>
             /\ result' = <<call.ret>>
    /\ UNCHANGED <<types, CONFIG, interfaces, stack, pc, py_type, config, error, text, writes,
                   threads>>

\* The caller renders the node it got: str(ts) and ts.full_str(), as the
\* tests do.  Both read CONFIG as it is now.
Render ==
    /\ pc = "done"
    /\ pc' = "rendered"
    /\ text' = [str |-> Outcome(Str(CONFIG, result[1])),
                full_str |-> Outcome(Closure(CONFIG, result[1]))]
    /\ UNCHANGED <<types, CONFIG, interfaces, stack, py_type, config, result, error, writes,
                   excluded, threads>>

Next ==
    \/ \E d \in Roots(types), cfg \in Overrides : generate_ts(d, cfg)
    \/ ConvertNext
    \/ ConvertBase
    \/ Return
    \/ \E o \in Flags, v \in BOOLEAN : SetOption(o, v)
    \/ \E i \in Indents : SetIndent(i)
    \/ Render
    \/ Exclude

Spec == Init /\ [][Next]_vars

(***************************************************************************)
(* Reading a tree of nodes and a text.                                     *)
(***************************************************************************)
\* The nodes directly below a node
SubNodes(n) ==
    CASE n.k = "TSInterface" -> [i \in DOMAIN n.fields |-> n.fields[i].v] \o n.inheritance
      [] n.k = "TSRecordType" -> n.key_value
      [] IsDerivedType(n) -> SetToSeq(Children(n))
      [] OTHER -> <<>>

RECURSIVE SumOf(_)
SumOf(s) == IF s = <<>> THEN 0 ELSE Head(s) + SumOf(Tail(s))

\* How many nodes of kind k named c the tree n holds
RECURSIVE Count(_, _, _)
Count(n, k, c) ==
    (IF n.k = k /\ n.name = c THEN 1 ELSE 0)
    + SumOf([i \in DOMAIN SubNodes(n) |-> Count(SubNodes(n)[i], k, c)])

\* The names of the interfaces and enums that occur in the tree n
RECURSIVE Declared(_)
Declared(n) ==
    (IF n.k \in {"TSInterface", "TSEnumType"} THEN {n.name} ELSE {})
    \cup UNION {Declared(SubNodes(n)[i]) : i \in DOMAIN SubNodes(n)}

Keywords == {"interface ", "enum ", "type "}
\* How many declarations of the name c the text holds
DeclCount(txt, c) ==
    Cardinality({i \in 1..(Len(txt) - 1) : txt[i] \in Keywords /\ txt[i + 1] = c})
\* The name c is used in the text as a type: a field type, a member, the
\* target of extends or of an alias
UsedAsType(txt, c) ==
    \E i \in 2..Len(txt) : txt[i] = c /\ txt[i - 1] \notin Keywords

Returned == pc \in {"done", "rendered"}
\* The call was made on a class, and its node is as the call returned it
IsClassRoot == py_type.k = "type" /\ py_type.t \in UserClasses(types) /\ excluded = <<>>

\* The descriptors a descriptor is made of, and the classes they name
RECURSIVE Mentions(_)
Mentions(d) ==
    IF d.k = "type" THEN {d.t}
    ELSE IF d.k = "Literal" THEN {}
    ELSE UNION {Mentions(d.args[i]) : i \in DOMAIN d.args}

FieldRefs(m, c) == UNION {Mentions(f.t) : f \in SeqSet(get_type_hints(m, c))}

\* The classes reachable from c through field annotations
RECURSIVE ReachFrom(_, _, _)
ReachFrom(m, seen, todo) ==
    IF todo = {} THEN seen
    ELSE LET c == CHOOSE x \in todo : TRUE
             new == FieldRefs(m, c) \ (seen \cup {c})
         IN  ReachFrom(m, seen \cup {c}, (todo \ {c}) \cup new)

Reachable(m, c) == ReachFrom(m, {}, {c})

IsStruct(m, c) == c \in UserClasses(m) /\ ClassOf(m, c).kind \in {"dataclass", "typeddict"}

\* c is the root of a graph of dataclasses and TypedDicts that refer to each
\* other through their fields, with primitive types at the leaves
StructGraph(m, c) ==
    /\ IsStruct(m, c)
    /\ \A x \in Reachable(m, c) :
         \/ x \in DOMAIN TYPE_MAP(Config)
         \/ IsStruct(m, x) /\ getmro(m, x) \ {x, "object", "dict", "ABC"} = {}

(***************************************************************************)
(* Claims.                                                                 *)
(***************************************************************************)
\* C1: on a graph of dataclass/TypedDict types that refer to each other
\* through fields, cycles included, generate_ts ends without exhausting the
\* recursion limit and with no other error, and what it returns is an
\* interface for the root in which every struct of the graph is expanded
\* exactly once: each re-encounter is a TSInterfaceRef with the struct's name.
C1_CycleSafe ==
    IsClassRoot /\ StructGraph(types, py_type.t) =>
        /\ pc # "error"
        /\ Returned =>
            /\ result[1].k = "TSInterface"
            /\ result[1].name = py_type.t
            /\ \A c \in Reachable(types, py_type.t) :
                 IsStruct(types, c) => Count(result[1], "TSInterface", c) = 1

C1_Witness ==
    /\ pc = "done"
    /\ types.mod = "graph"
    /\ {<<"G1", "G2">>, <<"G2", "G1">>, <<"G2", "G2">>} \subseteq types.edges
    /\ Count(result[1], "TSInterfaceRef", "G1") = 1
    /\ Count(result[1], "TSInterfaceRef", "G2") = 1

\* C2: the closure rendering of a node returned by generate_ts declares
\* every interface and every enum of the tree exactly once.
C2_DeclaredOnce ==
    pc = "rendered" /\ text.full_str.exc = NoError =>
        \A c \in Declared(result[1]) : DeclCount(text.full_str.s, c) = 1

\* C3: in the closure rendering of an interface returned by generate_ts,
\* every class name used as a type is declared in that same text.
C3_Complete ==
    pc = "rendered" /\ result[1].k = "TSInterface" /\ text.full_str.exc = NoError =>
        \A c \in UserClasses(types) :
            UsedAsType(text.full_str.s, c) => DeclCount(text.full_str.s, c) >= 1

\* The strings a union joins: data.py:234-239
UnionForms(cfg, n) ==
    {CodesOf(IF t.k = "TSInterface" THEN <<t.name>> ELSE Str(cfg, t)) : t \in n.elements}

\* C4: generate_ts of a Union descriptor returns a union node whose len is
\* the number of distinct rendered forms of its members.
C4_UnionDedup ==
    pc = "done" /\ py_type.k = "Union" =>
        /\ result[1].k = "TSUnionType"
        /\ NodeLen(result[1]) = Cardinality(UnionForms(CONFIG, result[1]))

\* C5: a call with a non-empty config converts under the defaults merged
\* with that config; with none_as_null false the absence type is undefined.
C5_OverrideApplies ==
    config.names # {} =>
        LET merged == Config_override(Config, config)
        IN  /\ pc = "running" => CONFIG = merged
            /\ pc = "done" /\ py_type = Py("NoneType") =>
                 result = <<TSPrimitiveType(IF merged.none_as_null THEN "null" ELSE "undefined")>>

\* The table the claim states.
C6_Table(cfg, d) ==
    IF d.k # "type" THEN "None"
    ELSE CASE d.t = "str" -> "string"
           [] d.t = "int" -> "number"
           [] d.t = "float" -> "number"
           [] d.t = "bool" -> "boolean"
           [] d.t = "bytes" -> "Uint8Array"
           [] d.t = "datetime" -> "Date"
           [] d.t = "NoneType" -> IF cfg.none_as_null THEN "null" ELSE "undefined"
           [] d.t = "Any" -> IF cfg.any_as_unknown THEN "unknown" ELSE "any"
           [] OTHER -> "None"

C6_Inputs == Roots(types) \cup {Py(c) : c \in ClassNames(types)}

\* C6: the primitive mapper gives, for every type and under every
\* configuration the program comes to (the defaults of the first call and
\* each one a write of an option makes), the entry of the table for exactly
\* that type and nothing for any other type; a call on a primitive (a step
\* to done that is not a write of an option) returns that primitive.
C6_PrimitiveMapper ==
    [][ /\ pc = "idle" \/ writes' # writes =>
             \A d \in C6_Inputs : from_python_type(CONFIG', d) = C6_Table(CONFIG', d)
        /\ pc # "running" /\ pc' = "done" /\ writes' = writes
             /\ C6_Table(CONFIG', py_type') # "None" =>
             result' = <<TSPrimitiveType(C6_Table(CONFIG', py_type'))>> ]_vars

C6_Witness ==
    /\ pc = "done"
    /\ py_type = Py("NoneType")
    /\ ~CONFIG.none_as_null
    /\ result = <<TSPrimitiveType("undefined")>>

Excluded == {"object", "dict", "ABC"}
AncestorsOf(m, c) == getmro(m, c) \ ({c} \cup Excluded)
Names(fields) == [i \in DOMAIN fields |-> fields[i].n]
Unexported(txt) == IF txt # <<>> /\ Head(txt) = "export " THEN Tail(txt) ELSE txt

\* c is a plain class or a dataclass with one ancestor, which has a field
OneAncestorWithFields(m, c) ==
    /\ ClassOf(m, c).kind \in {"plain", "dataclass"}
    /\ \E a \in AncestorsOf(m, c) : AncestorsOf(m, c) = {a} /\ ClassOf(m, a).ann # <<>>

TheAncestor(m, c) == CHOOSE a \in AncestorsOf(m, c) : TRUE

C7_Tree ==
    /\ result[1].k = "TSInterface"
    /\ result[1].name = py_type.t
    /\ result[1].inheritance # <<>>
    /\ result[1].inheritance[1].name = TheAncestor(types, py_type.t)
    /\ Names(result[1].fields) = Names(ClassOf(types, py_type.t).ann)

ExtendsBlock(txt, c, a) ==
    /\ Len(txt) >= 6
    /\ SubSeq(txt, 1, 5) = <<"interface ", c, " extends ", a, " {\n">>
    /\ txt[Len(txt)] = "}"

\* C7 as stated: with one ancestor that has fields, the interface has that
\* parent and the type's own fields only, and renders as
\* interface Name extends Parent { ... }.
C7_ExtendsParent ==
    IsClassRoot /\ OneAncestorWithFields(types, py_type.t) =>
        /\ pc # "error"
        /\ Returned => C7_Tree
        /\ pc = "rendered" =>
             ExtendsBlock(Unexported(text.str.s), py_type.t, TheAncestor(types, py_type.t))

\* C7 amended: the rendering is interface Name extends Parent { ... } when
\* the type declares a field of its own, and type Name = Parent; when it
\* declares none.
C7_ExtendsOrAlias ==
    IsClassRoot /\ OneAncestorWithFields(types, py_type.t) =>
        /\ pc # "error"
        /\ Returned => C7_Tree
        /\ pc = "rendered" =>
             IF ClassOf(types, py_type.t).ann # <<>>
             THEN ExtendsBlock(Unexported(text.str.s), py_type.t, TheAncestor(types, py_type.t))
             ELSE Unexported(text.str.s)
                    = <<"type ", py_type.t, " = ", TheAncestor(types, py_type.t), ";\n">>

C7_Witness ==
    /\ pc = "rendered"
    /\ py_type \in {Py("Foo"), Py("PFoo"), Py("FooBar")}
    /\ " extends " \in SeqSet(text.str.s)
    /\ Len(result[1].fields) = 1

AtDecision ==
    /\ pc = "running"
    /\ Top.fn = "classlike"
    /\ Top.todo = <<>>
    /\ Top.bases = {}

\* More than one ancestor of the root declares fields: none of them can
\* resolve to an interface without fields.
ManyAncestorsWithFields(m, c) ==
    /\ ClassOf(m, c).kind \in {"plain", "dataclass"}
    /\ Cardinality({a \in AncestorsOf(m, c) : ClassOf(m, a).ann # <<>>}) > 1

C8_RootFails ==
    IsClassRoot /\ ManyAncestorsWithFields(types, py_type.t) =>
        /\ ~Returned
        /\ pc = "error" => error = MultipleInheritance /\ result = <<>>

\* C8: a struct-like type of which more than one ancestor resolved to
\* something else than an interface without fields makes the call fail with
\* the multiple-inheritance error, and no node is returned.
C8_MultipleInheritance ==
    [][ /\ AtDecision /\ Len(Top.valid_bases) > 1 =>
             pc' = "error" /\ error' = MultipleInheritance /\ result' = <<>>
        /\ C8_RootFails' ]_vars

C8_Witness ==
    /\ pc = "error"
    /\ error = MultipleInheritance
    /\ py_type = Py("Leaf")
    /\ result = <<>>

\* c has one ancestor, and that ancestor declares no field
OneAncestorWithoutFields(m, c) ==
    /\ ClassOf(m, c).kind \in {"plain", "dataclass"}
    /\ \E a \in AncestorsOf(m, c) : AncestorsOf(m, c) = {a} /\ ClassOf(m, a).ann = <<>>

\* C9: with a single ancestor that has no field, the interface has no
\* parent and its rendering no extends clause, whether or not the ancestor
\* was met earlier in the call.
C9_EmptyAncestorDropped ==
    IsClassRoot /\ OneAncestorWithoutFields(types, py_type.t) =>
        /\ Returned => result[1].k = "TSInterface" /\ result[1].inheritance = <<>>
        /\ pc = "rendered" => " extends " \notin SeqSet(text.str.s)

\* c is a TypedDict that extends one TypedDict
ExtendsTypedDict(m, c) ==
    /\ ClassOf(m, c).kind = "typeddict"
    /\ Len(ClassOf(m, c).bases) = 1
    /\ ClassOf(m, ClassOf(m, c).bases[1]).kind = "typeddict"
    /\ ClassOf(m, ClassOf(m, c).bases[1]).bases = <<>>

\* C10: a TypedDict that extends a TypedDict gives an interface without
\* parent whose fields are those of the parent, then its own.
C10_TypedDictFlattened ==
    IsClassRoot /\ ExtendsTypedDict(types, py_type.t) =>
        /\ pc # "error"
        /\ Returned =>
            /\ result[1].k = "TSInterface"
            /\ result[1].inheritance = <<>>
            /\ Names(result[1].fields)
                 = Names(ClassOf(types, ClassOf(types, py_type.t).bases[1]).ann)
                   \o Names(ClassOf(types, py_type.t).ann)
        /\ pc = "rendered" => " extends " \notin SeqSet(text.str.s)

C10_Witness ==
    /\ pc = "rendered"
    /\ py_type = Py("TFoo")
    /\ Names(result[1].fields) = <<"bar", "foo">>

\* C11: exclude(S) on an Interface or Enum returns a node of the same name
\* whose fields or members are the original ones not named in S, in their
\* order and with their types or values, and leaves its receiver as it was.
C11_Exclude ==
    excluded # <<>> /\ excluded[1].receiver.k \in {"TSInterface", "TSEnumType"} =>
        LET self == excluded[1].receiver
            S == excluded[1].names
            entries(n) == IF n.k = "TSInterface" THEN n.fields ELSE n.members
            kept == {i \in DOMAIN entries(self) : entries(self)[i].n \notin S}
            rank(i) == Cardinality({j \in kept : j <= i})
        IN  /\ result[1].k = self.k
            /\ result[1].name = self.name
            /\ Len(entries(result[1])) = Cardinality(kept)
            /\ \A i \in kept : entries(result[1])[rank(i)] = entries(self)[i]
            /\ excluded[1].after = self

C11_Witness ==
    /\ excluded # <<>>
    /\ py_type = Py("StringDict")
    /\ excluded[1].names = {"s", "i"}
    /\ Names(result[1].fields) = <<"f", "b", "n">>
    /\ pc = "rendered"

\* The text the claim describes for an enum node, token by token.
C12_Text(cfg, n) ==
    LET indent == IF cfg.indent_with_tabs THEN <<"\t">> ELSE [i \in 1..cfg.indent_size |-> " "]
        value(e) == IF e.ty = "str" THEN <<"'", e.v, "'">> ELSE <<e.v>>
        line(e) == indent \o <<e.n, " = ">> \o value(e) \o <<",\n">>
        lines[i \in 0..Len(n.members)] ==
            IF i = 0 THEN <<>> ELSE lines[i - 1] \o line(n.members[i])
    IN  (IF cfg.export_interfaces THEN <<"export ">> ELSE <<>>)
        \o <<"enum ", n.name, " {\n">> \o lines[Len(n.members)] \o <<"}">>

\* C12: rendering an Enum node gives the export prefix iff export_interfaces
\* is set, 'enum Name {', one line per member in declaration order made of
\* the indent, the member, ' = ', the value (quoted when a string) and a
\* comma, then '}'; the indent is a tab, or indent_size spaces.
C12_EnumText ==
    [][ /\ pc = "done" /\ pc' = "rendered" /\ result[1].k = "TSEnumType"
        /\ \A e \in SeqSet(result[1].members) : e.ty \in {"str", "int"}
        =>  text'.str = [exc |-> NoError, s |-> C12_Text(CONFIG, result[1])] ]_vars

C12_Witness ==
    /\ pc = "rendered"
    /\ py_type = Py("Colors")
    /\ excluded = <<>>
    /\ text.str.s = <<"export ", "enum ", "Colors", " {\n",
                      " ", " ", "Green", " = ", "1", ",\n",
                      " ", " ", "Red", " = ", "'", "red", "'", ",\n", "}">>

\* C13: a call on a tuple of n type arguments returns a Tuple node of
\* length n, and its rendering lists n element types.
C13_TupleArity ==
    py_type.k = "tuple" =>
        /\ pc \in {"done", "rendered"} =>
             result[1].k = "TSTupleType" /\ NodeLen(result[1]) = Len(py_type.args)
        /\ pc = "rendered" /\ text.str.exc = NoError =>
             Cardinality({i \in DOMAIN text.str.s : text.str.s[i] = ", "}) + 1
               = Len(py_type.args)

\* C14: an Interface without own fields and with a parent renders as
\* [export ]type Name = Parent; and not as a block; an Interface with an own
\* field renders as a block and not as an alias; the export prefix is there
\* iff export_interfaces is set.
C14_AliasIffEmptyChild ==
    [][ pc = "done" /\ pc' = "rendered" /\ result[1].k = "TSInterface" =>
            LET n == result[1]
                got == text'.str.s
                body == Unexported(got)
            IN  /\ text'.str.exc = NoError
                /\ (got # body) = CONFIG.export_interfaces
                /\ IF n.fields = <<>> /\ n.inheritance # <<>>
                   THEN body = <<"type ", n.name, " = ", n.inheritance[1].name, ";\n">>
                   ELSE /\ Head(body) = "interface "
                        /\ body[2] = n.name
                        /\ body[Len(body)] = "}"
                        /\ "type " \notin SeqSet(body) ]_vars

C14_Witness ==
    /\ pc = "rendered"
    /\ py_type = Py("FooEmpty")
    /\ text.str.s = <<"export ", "type ", "FooEmpty", " = ", "Bar", ";\n">>

(***************************************************************************)
(* The call as made first in a fresh process: the same steps of the        *)
(* descent, run from an empty stack and an empty set, to their end.        *)
(***************************************************************************)
Ended(p, value, exc) ==
    [pc |-> p, result |-> value, error |-> exc, stack |-> <<>>, interfaces |-> {}]
Going(stk, ifs) ==
    [pc |-> "running", result |-> <<>>, error |-> NoError, stack |-> stk, interfaces |-> ifs]

FreshLand(stk, outcome) ==
    CASE outcome.kind = "call" ->
            IF Len(stk) >= RecursionLimit THEN Ended("error", <<>>, RecursionError)
            ELSE Going(Append(stk, outcome.frame[1]), outcome.interfaces)
      [] outcome.kind = "raise" -> Ended("error", <<>>, outcome.exc)
      [] outcome.kind = "return" ->
            IF stk = <<>> THEN Ended("done", outcome.value, NoError)
            ELSE LET got == Deliver(stk[Len(stk)], outcome.value[1])
                 IN  IF got.exc # NoError THEN Ended("error", <<>>, got.exc)
                     ELSE Going([stk EXCEPT ![Len(stk)] = got.frame], outcome.interfaces)

RECURSIVE FreshRun(_, _, _)
FreshRun(m, cfg, at) ==
    IF at.pc # "running" THEN {[pc |-> at.pc, result |-> at.result, error |-> at.error]}
    ELSE LET top == at.stack[Len(at.stack)]
         IN  IF top.todo # <<>>
             THEN FreshRun(m, cfg, FreshLand(at.stack,
                               _generate_ts(m, cfg, at.interfaces, Head(top.todo))))
             ELSE IF top.bases # {}
             THEN UNION {FreshRun(m, cfg,
                            FreshLand([at.stack EXCEPT ![Len(at.stack)] =
                                          [top EXCEPT !.bases = @ \ {base}, !.in_base = TRUE]],
                                      _generate_ts(m, cfg, at.interfaces, Py(base))))
                         : base \in top.bases}
             ELSE FreshRun(m, cfg, FreshLand(Front(at.stack), Finish(top, at.interfaces)))

\* The outcomes generate_ts(d) can have as the first call of a process
Fresh(m, cfg, d) == FreshRun(m, cfg, FreshLand(<<>>, _generate_ts(m, cfg, {}, d)))

\* The step ends a top-level call
CallEnds ==
    /\ pc' \in {"done", "error"}
    /\ writes' = writes
    /\ excluded' = <<>>

\* C15: whatever calls came before, and however they ended, a call ends as
\* the same call made first in a fresh process under the same configuration
\* can end: the set of identities is empty when the call starts.
C15_CallsIndependent ==
    [][ /\ pc # "running" /\ pc' \in {"running", "done", "error"} /\ writes' = writes
             /\ excluded' = <<>> =>
             interfaces' \subseteq (IF py_type'.k = "type" THEN {py_type'.t} ELSE {})
        /\ CallEnds =>
             [pc |-> pc', result |-> result', error |-> error']
               \in Fresh(types, CONFIG', py_type') ]_vars

\* A call on Foo made after an earlier call: the option written once is
\* back at its default, which only a call with a config argument does, and
\* the call that ended had none.
C15_Witness ==
    /\ pc = "done"
    /\ writes = 1
    /\ CONFIG = Config
    /\ config = NoConfig
    /\ py_type = Py("Foo")
    /\ result[1].k = "TSInterface"
    /\ result[1].inheritance[1].k = "TSInterface"

\* The dataclasses and TypedDicts whose expansion is on the stack
Expanding ==
    {stack[i].name : i \in {j \in DOMAIN stack :
        stack[j].fn = "classlike"
        /\ (is_dataclass(types, Py(stack[j].name)) \/ is_typeddict(types, Py(stack[j].name)))}}

\* C16: during a call the set of identities holds exactly the structs whose
\* expansion has started and not finished, and it is empty when the call
\* has returned.
C16_InFlightDrained ==
    /\ pc = "running" => interfaces = Expanding
    /\ pc \in {"done", "rendered"} => interfaces = {}

\* c is a plain class on a cycle of field references among plain classes
PlainCycle(m, c) ==
    /\ c \in UserClasses(m)
    /\ c \in UNION {Reachable(m, x) : x \in FieldRefs(m, c)}
    /\ \A x \in Reachable(m, c) :
         \/ x \in DOMAIN TYPE_MAP(Config)
         \/ x \in UserClasses(m) /\ ClassOf(m, x).kind = "plain" /\ ClassOf(m, x).bases = <<>>

\* C17: a call on a plain class that refers to itself, or to a plain class
\* that refers back to it, ends without error and returns the class's
\* interface, expanded once, the class met again being a reference.
C17_PlainCycleGuarded ==
    IsClassRoot /\ PlainCycle(types, py_type.t) =>
        /\ pc # "error"
        /\ Returned =>
            /\ result[1].k = "TSInterface"
            /\ Count(result[1], "TSInterface", py_type.t) = 1
            /\ Count(result[1], "TSInterfaceRef", py_type.t) >= 1

\* Where a text declares the type c
DeclAt(txt, c) == {i \in 2..Len(txt) : txt[i] = c /\ txt[i - 1] \in Keywords}

\* The types the declaration of c names: in its fields and as its parents
RefersTo(m, c) == FieldRefs(m, c) \cup SeqSet(ClassOf(m, c).bases)

\* C18: in the closure rendering, a declared type D that a declared type N
\* refers to, and that does not itself lead back to N, is declared before N.
C18_DependenciesFirst ==
    pc = "rendered" /\ excluded = <<>> /\ text.full_str.exc = NoError =>
        \A D \in UserClasses(types), N \in UserClasses(types) :
            /\ D # N
            /\ D \in RefersTo(types, N)
            /\ N \notin Reachable(types, D)
            => \A i \in DeclAt(text.full_str.s, D), j \in DeclAt(text.full_str.s, N) : i < j

\* C19: the rendering of an Interface holds one declaration, its own: the
\* Named nodes in or inside its field types show by name, so no other
\* declaration keyword and no other body is in the text.
C19_ShallowNamesOnly ==
    pc = "rendered" /\ result[1].k = "TSInterface" /\ text.str.exc = NoError =>
        LET txt == text.str.s
        IN  /\ Cardinality({i \in DOMAIN txt : txt[i] \in Keywords}) = 1
            /\ Cardinality({i \in DOMAIN txt : txt[i] = "}"}) <= 1
            /\ \A i \in DOMAIN txt : txt[i] \in Keywords => txt[i + 1] = result[1].name

\* The call returned an Array of a Union or Tuple of more than one member
PluralArray ==
    /\ pc = "rendered"
    /\ result[1].k = "TSArrayType"
    /\ result[1].element.k \in {"TSUnionType", "TSTupleType"}
    /\ NodeLen(result[1].element) > 1

C21_InvalidValueFailsInCall ==
    LET invalid == \E e \in SeqSet(ClassOf(types, py_type.t).members) :
                        e.ty \notin {"str", "int"}
    IN  is_enum(types, py_type) /\ invalid /\ pc \in {"done", "error", "rendered"} =>
            pc = "error" /\ error = ValueError /\ result = <<>>

(***************************************************************************)
(* C22: the fallback conversion of a class without annotations.            *)
(***************************************************************************)
\* C22: a call that takes the fallback for a class from which no field
\* annotation can be read fails with the unsupported-type error; it does
\* not return an Interface with an empty field map.
C22_FallbackWithoutFieldsFails ==
    LET \* generate.py:225-238 is reached for the descriptor (no special form,
        \* no primitive, a class) and generate.py:136 finds no annotation
        FallbackWithoutFields(m, cfg, d) ==
            /\ isclass(d)
            /\ ~is_dataclass(m, d) /\ ~is_typeddict(m, d) /\ ~is_enum(m, d) /\ ~_is_dict(d)
            /\ from_python_type(cfg, d) = "None"
            /\ _get_type_hints_no_inheritance(m, d.t) = <<>>
    IN  FallbackWithoutFields(types, CONFIG, py_type) /\ pc \in {"done", "error", "rendered"} =>
            pc = "error" /\ error = UnsupportedType /\ result = <<>>

(***************************************************************************)
(* Equality and hashing of nodes.                                          *)
(***************************************************************************)
\* An equality that takes two nodes for equal when they render alike
NodeEq_by_str(a, b) == Str(Config, a) = Str(Config, b)

\* data.py:101-107 and the @dataclass of every node class: the generated
\* __eq__ holds for two objects of the same class whose fields are all
\* equal, not_required included
NodeEq(a, b) == a = b

\* data.py:292-313: an intersection node, which generate never builds
TypescriptIntersectionType(es) ==
    [k |-> "TypescriptIntersectionType", not_required |-> FALSE, elements |-> es]

\* __hash__ of a node: data.py:149-151 (primitive), 168-170 (literal),
\* 198-203 (derived: the frozenset of a set or list of elements, else the
\* hash of the one element), 355-357 (complex: the name)
\* HashOf is hash(x) of a string, an integer or an Enum member, and
\* HashOfFrozenset is hash(frozenset(s)), the function of the hashes of the
\* members of s that it is
RECURSIVE Hash(_)
Hash(n) ==
    LET HashOf(ty, v) == [tag |-> "atom", ty |-> ty, v |-> v, sub |-> {}]
        HashOfFrozenset(hs) == [tag |-> "frozenset", ty |-> "", v |-> "", sub |-> hs]
    IN  CASE n.k = "TSPrimitiveType" -> HashOf("TypescriptPrimitive", n.type)
          [] n.k = "TSLiteralType" -> HashOf(n.value.ty, n.value.v)
          [] n.k \in {"TSUnionType", "TSTupleType", "TypescriptIntersectionType"} ->
                HashOfFrozenset({Hash(e) : e \in n.elements})
          [] n.k = "TSRecordType" -> HashOfFrozenset({Hash(e) : e \in SeqSet(n.key_value)})
          [] n.k = "TSArrayType" -> Hash(n.element)
          [] IsTSComplex(n) -> HashOf("str", n.name)

\* The nodes of a tree, the root included
RECURSIVE AllNodes(_)
AllNodes(n) ==
    {n} \cup (IF n.k = "TypescriptIntersectionType" THEN UNION {AllNodes(e) : e \in n.elements}
              ELSE UNION {AllNodes(SubNodes(n)[i]) : i \in DOMAIN SubNodes(n)})

\* Nodes made with the constructors of data.py rather than by generate_ts
Constructed ==
    LET string == TSPrimitiveType("string")
        number == TSPrimitiveType("number")
        d == TSInterface("D", <<FieldValue("x", number)>>, <<>>)
    IN  {string, number, [string EXCEPT !.not_required = TRUE],
         TSLiteralType(LiteralValue("str", "1")), TSLiteralType(LiteralValue("int", "1")),
         TypescriptIntersectionType({string, number}),
         TypescriptIntersectionType({number}),
         TSUnionType({string, number}), TSTupleType({string, number}),
         TSArrayType(number), TSRecordType(string, number), TSRecordType(number, string),
         d, TSInterface("D", <<>>, <<>>), TSInterfaceRef("D"),
         TSInterface("Foo", <<>>, <<d>>), TSEnumType("D", <<Member("Green", "int", "1")>>)}

(***************************************************************************)
(* C23: the identity of a named node.                                      *)
(***************************************************************************)
\* C23: two named nodes (Interface, Enum, Named-Reference) are equal and
\* have equal hashes if and only if they have the same name, whatever
\* their fields, parent and optionality flag.
C23_NameIsIdentity ==
    pc = "done" =>
        \A a, b \in {n \in AllNodes(result[1]) : IsTSComplex(n)} :
            (NodeEq(a, b) /\ Hash(a) = Hash(b)) <=> a.name = b.name

(***************************************************************************)
(* C24: referenced_types.                                                  *)
(***************************************************************************)
\* data.py:119-126 (a primitive, a literal, an enum, a reference: the empty
\* set), 210-220 (a derived type: what its elements reference), 503-513 (an
\* interface: what the values of its fields reference, walked in sorted
\* order; the parent is not asked)
RECURSIVE referenced_types(_)
referenced_types(n) ==
    CASE n.k = "TSInterface" ->
            UNION {referenced_types(n.fields[i].v) : i \in DOMAIN n.fields}
      [] IsDerivedType(n) \/ n.k = "TypescriptIntersectionType" ->
            UNION {referenced_types(t) : t \in Children(n)}
      [] OTHER -> {}

\* The named nodes reached from a node through the fields of an interface
\* and the members of a container
RECURSIVE Dependencies(_)
Dependencies(n) ==
    LET Members == IF n.k = "TSInterface" THEN {n.fields[i].v : i \in DOMAIN n.fields}
                   ELSE Children(n)
    IN  {t \in Members : IsTSComplex(t)} \cup UNION {Dependencies(t) : t \in Members}

\* C24: referenced_types() of a node is the set of the named nodes reached
\* from it through fields and container members; it holds N for every
\* interface with a field of named type N and for every union, array,
\* tuple or record with N as a member.
C24_ReferencedTypesIsClosure ==
    pc = "done" =>
        \A n \in AllNodes(result[1]) : referenced_types(n) = Dependencies(n)

(***************************************************************************)
(* C25: the outcome of a call and the order in which sets are walked.      *)
(***************************************************************************)
\* C25: for a descriptor and a configuration, a call ends with the same
\* node or the same error on every run, in whatever order the sets used on
\* the way (the ancestors of a class among them) are walked.
C25_OrderIndependent ==
    [][ CallEnds =>
            Fresh(types, CONFIG', py_type')
                = {[pc |-> pc', result |-> result', error |-> error']} ]_vars

(***************************************************************************)
(* C26: top-level calls made by two threads.  The threads share the        *)
(* module-level set `interfaces` (generate.py:84); each has its own        *)
(* activation records.  A thread is switched between two conversions.      *)
(***************************************************************************)
Thread == {1, 2}

\* What the threads convert, one call each
ThreadRoots ==
    {Py("D"), Py("InnerDict"), Py("OuterDict"), Py("Foo"), Py("Outer2"),
     ListOf("List", Py("D"))}

InitThreads ==
    /\ types = [mod |-> "fixture", edges |-> {}]
    /\ CONFIG = Config
    /\ interfaces = {}
    /\ stack = <<>>
    /\ pc = "idle"
    /\ py_type = Py("object")
    /\ config = NoConfig
    /\ result = <<>>
    /\ error = NoError
    /\ text = NoText
    /\ writes = 0
    /\ excluded = <<>>
    /\ threads = [t \in Thread |->
                      [pc |-> "idle", py_type |-> Py("object"), stack |-> <<>>,
                       result |-> <<>>, error |-> NoError, mixed |-> FALSE]]

\* Thread t goes on from `self` with the outcome of the conversion it made,
\* which wrote the shared set; a thread in a call of its own has from now
\* on shared the set with a step of another thread.
ThreadResume(t, self, stk, outcome) ==
    LET at == FreshLand(stk, outcome)
    IN  /\ interfaces' = outcome.interfaces
        /\ threads' = [u \in Thread |->
                         IF u = t
                         THEN [self EXCEPT !.pc = at.pc, !.stack = at.stack,
                                           !.result = at.result, !.error = at.error]
                         ELSE IF threads[u].pc = "running"
                         THEN [threads[u] EXCEPT !.mixed = TRUE]
                         ELSE threads[u]]
        /\ UNCHANGED <<types, CONFIG, stack, pc, py_type, config, result, error, text, writes,
                       excluded>>

\* generate.py:48-79 in thread t
thread_generate_ts(t, d) ==
    /\ threads[t].pc = "idle"
    /\ ThreadResume(t, [threads[t] EXCEPT !.py_type = d], <<>>,
                    _generate_ts(types, CONFIG, interfaces_clear(interfaces), d))

\* generate.py:137-138, 205, 210, 215 in thread t
ThreadConvertNext(t) ==
    LET self == threads[t]
        top == self.stack[Len(self.stack)]
    IN  /\ self.pc = "running"
        /\ top.todo # <<>>
        /\ ThreadResume(t, self, self.stack,
                        _generate_ts(types, CONFIG, interfaces, Head(top.todo)))

\* generate.py:150-151 in thread t
ThreadConvertBase(t) ==
    LET self == threads[t]
        top == self.stack[Len(self.stack)]
    IN  /\ self.pc = "running"
        /\ top.todo = <<>>
        /\ \E base \in top.bases :
             LET waiting == [top EXCEPT !.bases = @ \ {base}, !.in_base = TRUE]
             IN  ThreadResume(t, self, [self.stack EXCEPT ![Len(self.stack)] = waiting],
                              _generate_ts(types, CONFIG, interfaces, Py(base)))

\* The innermost call of thread t returns to its caller, or raises
ThreadReturn(t) ==
    LET self == threads[t]
        top == self.stack[Len(self.stack)]
    IN  /\ self.pc = "running"
        /\ top.todo = <<>>
        /\ top.bases = {}
        /\ ThreadResume(t, self, Front(self.stack), Finish(top, interfaces))

NextThreads ==
    \/ \E t \in Thread, d \in ThreadRoots : thread_generate_ts(t, d)
    \/ \E t \in Thread : ThreadConvertNext(t)
    \/ \E t \in Thread : ThreadConvertBase(t)
    \/ \E t \in Thread : ThreadReturn(t)

SpecThreads == InitThreads /\ [][NextThreads]_vars

\* The call of thread t ended otherwise than the same call run alone ends
Differs(t) ==
    /\ threads[t].pc \in {"done", "error"}
    /\ [pc |-> threads[t].pc, result |-> threads[t].result, error |-> threads[t].error]
         \notin Fresh(types, CONFIG, threads[t].py_type)

\* C26: two calls that interleave on the shared set are not safe: a call
\* can end otherwise than it ends when run alone (C26_Witness is such an
\* end), and it does so only when a step of the other thread fell between
\* its start and its end.
C26_OnlyInterleavingDiffers ==
    \A t \in Thread : Differs(t) => threads[t].mixed

\* Thread 1 returned a tree that names a class by reference only, with no
\* interface of that class in it
C26_Witness ==
    /\ Differs(1)
    /\ threads[1].pc = "done"
    /\ \E c \in UserClasses(types) :
         /\ Count(threads[1].result[1], "TSInterfaceRef", c) > 0
         /\ Count(threads[1].result[1], "TSInterface", c) = 0

=============================================================================
